---- MODULE Spec2Model ----
(***************************************************************************)
(* Supply_Chain_Data_Integration: the three entry points of the repository *)
(*   "Supply project/main.py"           the ingestion pipeline main()      *)
(*   "Supply project/dashboard/app.py"  the Streamlit dashboard            *)
(*   "Supply project/output.py"         the second Streamlit dashboard     *)
(* A behaviour is one process running one of them (variable program).      *)
(* A dashboard script is re-executed top to bottom on every widget change; *)
(* one execution is one action.                                            *)
(***************************************************************************)
EXTENDS Integers, Sequences, FiniteSets, TLC

\* ------------------------------------------------------------------ bounds
\* Largest number of rows of data/processed_data.csv.
MaxRows == 2
\* Calendar days 0..MaxDay appear in the data and in the date widgets.
MaxDay == 1

\* ------------------------------------------------------- values of a cell
\* pandas NaT: a missing timestamp (read_csv with parse_dates).
NaT == -1
\* pandas NaN in a numeric column (the columns hold quantities >= 0).
NaN == -1
\* pandas NaN in a text column (Category, Product ID).
NA == "NaN"
\* A timestamp is a number of hours; Series.dt.days counts whole 24 h days.
HoursPerDay == 24

\* Derived numbers: a rational n/d, not-a-number, or +infinity; the standard
\* deviation is kept as the square root of a rational.
RECURSIVE Gcd(_, _)
Gcd(a, b) == IF b = 0 THEN a ELSE Gcd(b, a % b)
Abs(x) == IF x < 0 THEN -x ELSE x
Rat(n, d) ==
    LET g == Gcd(Abs(n), d)
    IN  [k |-> "num", n |-> n \div g, d |-> d \div g]
Int2Num(n) == Rat(n, 1)
NotANumber == [k |-> "nan", n |-> 0, d |-> 1]
Infinity == [k |-> "inf", n |-> 1, d |-> 0]
Sqrt(r) == IF r.k = "num" THEN [k |-> "sqrt", n |-> r.n, d |-> r.d] ELSE r
IsNum(v, x) == v.k = "num" /\ v.n = x * v.d

\* ------------------------------------------------- pandas/numpy primitives
\* Comparisons of a column with a scalar: False wherever either side is missing.
\* <= written the wrong way round (>= for <=).
LeReversed(a, b) == a # NaT /\ b # NaT /\ a >= b
Ge(a, b) == a # NaT /\ b # NaT /\ a >= b
Le(a, b) == a # NaT /\ b # NaT /\ a <= b
Lt(a, b) == a # NaN /\ b # NaN /\ a < b

Range(s) == {s[i] : i \in DOMAIN s}

\* Series.min() / Series.max(): missing values are skipped; NaT when nothing is left.
SeriesMin(s) ==
    LET S == Range(s) \ {NaT}
    IN  IF S = {} THEN NaT ELSE CHOOSE x \in S : \A y \in S : x <= y
SeriesMax(s) ==
    LET S == Range(s) \ {NaT}
    IN  IF S = {} THEN NaT ELSE CHOOSE x \in S : \A y \in S : x >= y

\* st.date_input hands back datetime.date values: the time of day is dropped;
\* pd.to_datetime(date) is that day's midnight.
ToDate(t) == IF t = NaT THEN NaT ELSE t \div HoursPerDay
ToDatetime(day) == IF day = NaT THEN NaT ELSE day * HoursPerDay

\* frame[mask]: the rows whose mask is True, in the frame's order, each keeping
\* its index label.
RECURSIVE BoolIndexFrom(_, _, _)
BoolIndexFrom(frame, mask, i) ==
    IF i > Len(frame) THEN <<>>
    ELSE (IF mask[i] THEN <<frame[i]>> ELSE <<>>) \o BoolIndexFrom(frame, mask, i + 1)
BoolIndex(frame, mask) == BoolIndexFrom(frame, mask, 1)

\* A DataFrame: its rows in order, each with its index label (RangeIndex 0..n-1).
Frame(rows) == [i \in 1..Len(rows) |-> [idx |-> i - 1, row |-> rows[i]]]
Col(frame, c) == [i \in 1..Len(frame) |-> frame[i].row[c]]

\* Series.sum(): missing values are skipped, the empty sum is 0.
RECURSIVE SumFrom(_, _)
SumFrom(s, i) ==
    IF i > Len(s) THEN 0
    ELSE (IF s[i] = NaN THEN 0 ELSE s[i]) + SumFrom(s, i + 1)
SeriesSum(s) == SumFrom(s, 1)

\* Series.nunique(): the number of distinct non-missing values.
NUnique(s, missing) == Cardinality(Range(s) \ {missing})

\* numpy true division of two sums: a zero divisor gives nan (0/0) or inf (x/0)
\* with a RuntimeWarning, never an exception.
NpDivide(a, b) ==
    IF b # 0 THEN Rat(a, b)
    ELSE IF a = 0 THEN NotANumber ELSE Infinity

\* round(x, 1) of a numpy float: to one decimal, halves to the even digit;
\* nan and inf are returned as they are.
Round1(v) ==
    IF v.k # "num" THEN v
    ELSE LET t == 10 * v.n
             q == t \div v.d
             r == t % v.d
             up == 2 * r > v.d \/ (2 * r = v.d /\ q % 2 = 1)
         IN  Rat(IF up THEN q + 1 ELSE q, 10)
Times100(v) == IF v.k = "num" THEN Rat(100 * v.n, v.d) ELSE v

\* (ship - order).dt.days: whole days of the difference, rounded down; NaN when
\* either timestamp is missing.
LeadDays(row) ==
    IF row.sd = NaT \/ row.od = NaT THEN NotANumber
    ELSE Int2Num((row.sd - row.od) \div HoursPerDay)
LeadTimes(frame) == [i \in 1..Len(frame) |-> LeadDays(frame[i].row)]

\* The non-missing values of a series of derived numbers, as integers.
RECURSIVE DropNaFrom(_, _)
DropNaFrom(s, i) ==
    IF i > Len(s) THEN <<>>
    ELSE (IF s[i].k = "num" THEN <<s[i].n>> ELSE <<>>) \o DropNaFrom(s, i + 1)
DropNa(s) == DropNaFrom(s, 1)
\* The non-missing values of a raw numeric column.
RECURSIVE DropNaNFrom(_, _)
DropNaNFrom(s, i) ==
    IF i > Len(s) THEN <<>>
    ELSE (IF s[i] # NaN THEN <<s[i]>> ELSE <<>>) \o DropNaNFrom(s, i + 1)
DropNaN(s) == DropNaNFrom(s, 1)

RECURSIVE Total(_)
Total(xs) == IF xs = <<>> THEN 0 ELSE Head(xs) + Total(Tail(xs))
RECURSIVE TotalSq(_)
TotalSq(xs) == IF xs = <<>> THEN 0 ELSE Head(xs) * Head(xs) + TotalSq(Tail(xs))

\* Ascending insertion of x into the sorted list xs.
RECURSIVE Insert(_, _)
Insert(x, xs) ==
    IF xs = <<>> THEN <<x>>
    ELSE IF x <= Head(xs) THEN <<x>> \o xs
    ELSE <<Head(xs)>> \o Insert(x, Tail(xs))
RECURSIVE SortAsc(_)
SortAsc(xs) == IF xs = <<>> THEN <<>> ELSE Insert(Head(xs), SortAsc(Tail(xs)))

\* mean / median / std of the non-missing values xs (integers).
\* mean and median of nothing are NaN; std (ddof = 1) of fewer than two values
\* is NaN.
Mean(xs) == IF xs = <<>> THEN NotANumber ELSE Rat(Total(xs), Len(xs))
Median(xs) ==
    LET s == SortAsc(xs)
        n == Len(s)
    IN  IF n = 0 THEN NotANumber
        ELSE IF n % 2 = 1 THEN Int2Num(s[(n + 1) \div 2])
        ELSE Rat(s[n \div 2] + s[n \div 2 + 1], 2)
Std(xs) ==
    LET n == Len(xs)
    IN  IF n < 2 THEN NotANumber
        ELSE Sqrt(Rat(n * TotalSq(xs) - Total(xs) * Total(xs), n * (n - 1)))

\* DataFrame.groupby(key)[val].agg().reset_index(): one (key, value) pair per
\* distinct non-missing key (dropna = True), keys ascending (sort = True).
RECURSIVE SortedInts(_)
SortedInts(S) ==
    IF S = {} THEN <<>>
    ELSE LET m == CHOOSE x \in S : \A y \in S : x <= y
         IN  <<m>> \o SortedInts(S \ {m})
Categories == {"Clothing", "Electronics"}
CatRank(c) == IF c = "Clothing" THEN 1 ELSE 2
RECURSIVE SortedCats(_)
SortedCats(S) ==
    IF S = {} THEN <<>>
    ELSE LET m == CHOOSE x \in S : \A y \in S : CatRank(x) <= CatRank(y)
         IN  <<m>> \o SortedCats(S \ {m})
\* The cells of column val in the rows whose column key equals k.
Group(frame, key, k, val) ==
    Col(BoolIndex(frame, [i \in 1..Len(frame) |-> frame[i].row[key] = k]), val)
GroupKeysDate(frame) == SortedInts(Range(Col(frame, "od")) \ {NaT})
GroupKeysCat(frame) == SortedCats(Range(Col(frame, "cat")) \ {NA})
GroupBySum(frame, key, keys, val) ==
    [j \in 1..Len(keys) |->
        [key |-> keys[j], value |-> Int2Num(SeriesSum(Group(frame, key, keys[j], val)))]]
GroupByMean(frame, key, keys, val) ==
    [j \in 1..Len(keys) |->
        [key |-> keys[j], value |-> Mean(DropNaN(Group(frame, key, keys[j], val)))]]

\* a <= b for two rationals; the orders of n positions.
NumLe(a, b) == a.n * b.d <= b.n * a.d
IndexOrders(n) == {p \in [1..n -> 1..n] : \A i, j \in 1..n : p[i] = p[j] => i = j}
\* sort_values with ascending = True: smallest value first.
SortValuesAsc(pairs) ==
    LET n == Len(pairs)
    IN  {[i \in 1..n |-> pairs[p[i]]] : p \in
            {q \in IndexOrders(n) :
                \A i \in 1..n - 1 : NumLe(pairs[q[i]].value, pairs[q[i + 1]].value)}}
\* DataFrame.sort_values(by = value, ascending = False) with the default
\* (unstable) sort: the pairs by value, largest first; the order of pairs with
\* equal values is not fixed, so every such order is an outcome.
SortValuesDesc(pairs) ==
    LET n == Len(pairs)
    IN  {[i \in 1..n |-> pairs[p[i]]] : p \in
            {q \in IndexOrders(n) :
                \A i \in 1..n - 1 : NumLe(pairs[q[i + 1]].value, pairs[q[i]].value)}}

\* ------------------------------------------------------------ the datasets
\* A row of data/processed_data.csv.  Columns read by both dashboards:
\*   oid "Order ID"   od "Order Date"   sd "Ship Date"   cat "Category"
\*   pid "Product ID"
\* by output.py:
\*   qo "Quantity Ordered"   qd "Quantity Delivered"   inv "Inventory"
\*   rl "Reorder Level"
\* by dashboard/app.py:
\*   fr "Fill Rate"   it "Inventory Turnover"   il "Inventory Level"
\*   sl "Stock Level"   rp "Reorder Point"
Dates == {NaT} \cup {HoursPerDay * d : d \in 0..MaxDay} \cup {HoursPerDay * MaxDay + 12}
Ship(od, off) == IF od = NaT \/ off = NaT THEN NaT ELSE od + off

\* The rows that vary the order date and the category, and the rows that vary
\* the quantities the metrics read.
OutputMetrics ==
    { [oid |-> "ORD_002", off |-> 84, cat |-> "Clothing", pid |-> "PROD_01",
       qo |-> 0, qd |-> 0, inv |-> 0, rl |-> 1],
      [oid |-> "ORD_002", off |-> NaT, cat |-> "Electronics", pid |-> "PROD_02",
       qo |-> 0, qd |-> 2, inv |-> 0, rl |-> 1],
      [oid |-> "ORD_001", off |-> 24, cat |-> "Electronics", pid |-> "PROD_01",
       qo |-> 2, qd |-> 2, inv |-> 3, rl |-> 4],
      [oid |-> "ORD_002", off |-> 36, cat |-> "Electronics", pid |-> NA,
       qo |-> NaN, qd |-> NaN, inv |-> NaN, rl |-> NaN] }
OutputRows ==
    { [oid |-> "ORD_001", od |-> t, sd |-> Ship(t, 72), cat |-> c, pid |-> "PROD_01",
       qo |-> 2, qd |-> 1, inv |-> 1, rl |-> 1] : t \in Dates, c \in {"Clothing", NA} }
    \cup
    { [oid |-> m.oid, od |-> 0, sd |-> Ship(0, m.off), cat |-> m.cat, pid |-> m.pid,
       qo |-> m.qo, qd |-> m.qd, inv |-> m.inv, rl |-> m.rl] : m \in OutputMetrics }

AppMetrics ==
    { [oid |-> "ORD_002", off |-> 84, cat |-> "Clothing", pid |-> "PROD_01",
       fr |-> 100, it |-> 2, il |-> 20, sl |-> 1, rp |-> 5],
      [oid |-> "ORD_002", off |-> NaT, cat |-> "Electronics", pid |-> "PROD_02",
       fr |-> NaN, it |-> NaN, il |-> NaN, sl |-> 0, rp |-> 1],
      [oid |-> "ORD_001", off |-> 24, cat |-> "Electronics", pid |-> "PROD_01",
       fr |-> 80, it |-> 6, il |-> 0, sl |-> 4, rp |-> 5],
      [oid |-> "ORD_002", off |-> 36, cat |-> "Electronics", pid |-> NA,
       fr |-> 70, it |-> 3, il |-> 5, sl |-> NaN, rp |-> 5] }
AppRows ==
    { [oid |-> "ORD_001", od |-> t, sd |-> Ship(t, 72), cat |-> c, pid |-> "PROD_01",
       fr |-> 90, it |-> 4, il |-> 10, sl |-> 5, rp |-> 5] : t \in Dates, c \in {"Clothing", NA} }
    \cup
    { [oid |-> m.oid, od |-> 0, sd |-> Ship(0, m.off), cat |-> m.cat, pid |-> m.pid,
       fr |-> m.fr, it |-> m.it, il |-> m.il, sl |-> m.sl, rp |-> m.rp] : m \in AppMetrics }

Datasets(Rows) == UNION {[1..n -> Rows] : n \in 0..MaxRows}

\* --------------------------------------------------------------- the filter
\* The choices of the category selectbox: "All", then the categories present.
CategoryOptions(rows) == {"All"} \cup (Range(Col(Frame(rows), "cat")) \ {NA})
\* The widgets' values on the first run: the dates of the earliest and the latest
\* Order Date, and "All".  dates is the number of dates the date widgets hold:
\* the two of output.py always hold one each; the range picker of app.py holds
\* a tuple of 0, 1 or 2 dates (start is its element 0 and end its element 1,
\* NaT standing in for an element the tuple does not have).
DefaultSelection(rows) ==
    [start |-> ToDate(SeriesMin(Col(Frame(rows), "od"))),
     end |-> ToDate(SeriesMax(Col(Frame(rows), "od"))),
     category |-> "All", dates |-> 2]

\* The mask with the upper bound of the date range left out (< for <=).
AppMaskUpperExclusive(frame, s) ==
    [i \in 1..Len(frame) |->
        /\ Ge(frame[i].row.od, ToDatetime(s.start))
        /\ Le(frame[i].row.od, ToDatetime(s.end)) /\ frame[i].row.od # ToDatetime(s.end)
        /\ (s.category # "All" => frame[i].row.cat = s.category)]
\* dashboard/app.py, lines 25-28: one mask, one indexing.
AppMask(frame, s) ==
    [i \in 1..Len(frame) |->
        /\ Ge(frame[i].row.od, ToDatetime(s.start))
        /\ Le(frame[i].row.od, ToDatetime(s.end))
        /\ (s.category # "All" => frame[i].row.cat = s.category)]
AppFilter(rows, s) == BoolIndex(Frame(rows), AppMask(Frame(rows), s))

\* output.py, lines 35-37: the date range first, then the category on the result.
OutputDateFilter(frame, s) ==
    BoolIndex(frame, [i \in 1..Len(frame) |->
        Ge(frame[i].row.od, ToDatetime(s.start)) /\ Le(frame[i].row.od, ToDatetime(s.end))])
OutputCategoryFilter(frame, s) ==
    IF s.category # "All"
    THEN BoolIndex(frame, [i \in 1..Len(frame) |-> frame[i].row.cat = s.category])
    ELSE frame
OutputFilter(rows, s) == OutputCategoryFilter(OutputDateFilter(Frame(rows), s), s)

\* ------------------------------------------------------- one run of a script
\* frame with the derived column "Lead Time" (lead) added to every row.
WithLeadTime(frame) ==
    [i \in 1..Len(frame) |->
        [idx |-> frame[i].idx, row |-> [lead |-> LeadDays(frame[i].row)] @@ frame[i].row]]
\* groupby("Order Date")["Lead Time"].mean() over a frame holding that column.
LeadTimeByDate(frame) ==
    LET keys == GroupKeysDate(frame)
    IN  [j \in 1..Len(keys) |->
            [key |-> keys[j], value |-> Mean(DropNa(Group(frame, "od", keys[j], "lead")))]]

\* The rows with stock below the reorder threshold (a missing cell compares False).
AtRisk(frame, stock, threshold) ==
    BoolIndex(frame, [i \in 1..Len(frame) |-> Lt(frame[i].row[stock], frame[i].row[threshold])])

\* dashboard/app.py, lines 25-99, with the widgets' values s.  Line 25 reads
\* date_range[0] and date_range[1]: with fewer than two dates in the tuple it
\* raises IndexError and the run ends there, before df_filtered and every
\* metric.
AppScript(rows, s) ==
    LET df_filtered == AppFilter(rows, s)
        lead_times == LeadTimes(df_filtered)
    IN  IF s.dates < 2 THEN [view |-> <<>>, raised |-> "IndexError"] ELSE
        [view |-> df_filtered,
         total_orders |-> NUnique(Col(df_filtered, "oid"), NA),
         lead_times |-> lead_times,
         avg_lead_time |-> Mean(DropNa(lead_times)),
         median_lead_time |-> Median(DropNa(lead_times)),
         std_lead_time |-> Std(DropNa(lead_times)),
         fill_rate |-> Mean(DropNaN(Col(df_filtered, "fr"))),
         inventory_turnover |-> Mean(DropNaN(Col(df_filtered, "it"))),
         products_at_risk |-> NUnique(Col(AtRisk(df_filtered, "sl", "rp"), "pid"), NA),
         total_products |-> NUnique(Col(df_filtered, "pid"), NA),
         time_rollup |-> GroupByMean(df_filtered, "od", GroupKeysDate(df_filtered), "il"),
         category_rollup |-> GroupByMean(df_filtered, "cat", GroupKeysCat(df_filtered), "fr"),
         lead_rollup |-> LeadTimeByDate(WithLeadTime(df_filtered)),
         raised |-> "none"]

\* output.py, lines 35-46, 67, 73, 78-79: the values that do not depend on the
\* order of cat_perf.
OutputMetricsOf(filtered_df) ==
    LET delivered == SeriesSum(Col(filtered_df, "qd"))
        ordered == SeriesSum(Col(filtered_df, "qo"))
        inventory == SeriesSum(Col(filtered_df, "inv"))
        lead_times == [i \in 1..Len(filtered_df) |-> filtered_df[i].row.lead]
    IN  [view |-> filtered_df,
         total_orders |-> NUnique(Col(filtered_df, "oid"), NA),
         lead_times |-> lead_times,
         avg_lead_time |-> Round1(Mean(DropNa(lead_times))),
         fill_rate |-> Round1(Times100(NpDivide(delivered, ordered))),
         inventory_turnover |-> Round1(NpDivide(delivered, inventory)),
         products_at_risk |-> Len(AtRisk(filtered_df, "inv", "rl")),
         total_products |-> NUnique(Col(filtered_df, "pid"), NA),
         time_rollup |-> GroupBySum(filtered_df, "od", GroupKeysDate(filtered_df), "inv"),
         filled |-> delivered,
         unfilled |-> ordered - delivered]
\* The name the script stops on after the alerts: lines 91-200 sit under the
\* else of line 87 and read sample_orders, which output.py never defines; line
\* 202 reads _name_, which nothing defines either.
OutputRaised(products_at_risk) ==
    IF products_at_risk > 0 THEN "NameError: _name_" ELSE "NameError: sample_orders"
\* The outcomes of one run of output.py with the widgets' values s.
OutputScript(rows, s) ==
    LET filtered_df == WithLeadTime(OutputFilter(rows, s))
        m == OutputMetricsOf(filtered_df)
        by_category == GroupBySum(filtered_df, "cat", GroupKeysCat(filtered_df), "qd")
    IN  { [category_rollup |-> cat_perf, raised |-> OutputRaised(m.products_at_risk)] @@ m :
            cat_perf \in SortValuesDesc(by_category) }

\* ------------------------------------------------- the frames of a run
\* The DataFrame objects of a run: bind gives the object each name is bound
\* to, heap the frame each object holds.  df[mask] and x.copy() return a new
\* object; name[column] = values writes the object the name is bound to, and
\* every name bound to that object sees the column.
Loaded(rows) == [bind |-> "df" :> 1, heap |-> <<Frame(rows)>>]
Deref(M, name) == M.heap[M.bind[name]]
NewObject(M) == Len(M.heap) + 1
\* name = frame, for frame the value of df[mask] or of x.copy().
Assign(M, name, frame) ==
    [bind |-> (name :> NewObject(M)) @@ M.bind, heap |-> Append(M.heap, frame)]
\* name["Lead Time"] = (name["Ship Date"] - name["Order Date"]).dt.days
SetLeadTime(M, name) == [M EXCEPT !.heap[M.bind[name]] = WithLeadTime(@)]
\* The records of a frame, without their index labels.
Rows(frame) == [i \in 1..Len(frame) |-> frame[i].row]

\* The objects at the end of a run of output.py: line 35 binds filtered_df to
\* df[mask], line 37 rebinds it to filtered_df[mask] for a category other than
\* "All", line 40 assigns the Lead Time column on filtered_df.
OutputMemory(rows, s) ==
    LET M1 == Assign(Loaded(rows), "filtered_df", OutputDateFilter(Deref(Loaded(rows), "df"), s))
        M2 == IF s.category # "All"
              THEN Assign(M1, "filtered_df", OutputCategoryFilter(Deref(M1, "filtered_df"), s))
              ELSE M1
    IN  SetLeadTime(M2, "filtered_df")
\* The objects at the end of a run of dashboard/app.py: line 28 binds
\* df_filtered to df[mask], line 92 binds df_lead to df_filtered.copy(), line 93
\* assigns the Lead Time column on df_lead.  A run that raises at line 25 binds
\* nothing.
AppMemory(rows, s) ==
    IF s.dates < 2 THEN Loaded(rows)
    ELSE LET M1 == Assign(Loaded(rows), "df_filtered",
                          BoolIndex(Deref(Loaded(rows), "df"), AppMask(Deref(Loaded(rows), "df"), s)))
             M2 == Assign(M1, "df_lead", Deref(M1, "df_filtered"))
         IN  SetLeadTime(M2, "df_lead")

\* --------------------------------- the sample dashboard (supply chain pro)
\* Largest Lead Time (Days) drawn for a sample order.
MaxLeadTime == 2
\* sample_orders, lines 25-36: one order a day from 2024-01-01 (day 0), shipped
\* two days later, the categories taken in turn, Lead Time (Days) drawn at
\* random for every order.  The columns no statement of the script reads
\* (Customer ID, Product ID, Quantity, Profit) and Sales are left out, and so is
\* sample_inventory, which the script builds at lines 39-49 and only reads.
SampleOrders ==
    {[i \in 1..MaxRows |->
        [oid |-> i, od |-> HoursPerDay * (i - 1), sd |-> HoursPerDay * (i + 1),
         cat |-> IF i % 2 = 1 THEN "Electronics" ELSE "Clothing", lt |-> f[i]]] :
     f \in [1..MaxRows -> 1..MaxLeadTime]}
\* dt.to_period('M') of a day of 2024, as the number of months since 2024-01.
ToPeriodM(t) ==
    LET day == t \div HoursPerDay
    IN  IF day < 31 THEN 0 ELSE IF day < 60 THEN 1 ELSE IF day < 91 THEN 2 ELSE 3
\* value_counts().sort_index(): (value, number of rows) pairs, values ascending.
ValueCounts(s) ==
    LET keys == SortedInts(Range(s))
    IN  [j \in 1..Len(keys) |->
            [key |-> keys[j], value |-> Cardinality({i \in DOMAIN s : s[i] = keys[j]})]]
\* groupby('Category').agg({'Order ID': 'count'}): the orders of each category.
CountByCategory(frame) ==
    LET keys == GroupKeysCat(frame)
    IN  [j \in 1..Len(keys) |->
            [key |-> keys[j], value |-> Len(Group(frame, "cat", keys[j], "oid"))]]
\* Lines 51-156: the KPIs, the charts, the alert on lead times above 14 days and
\* the first two tabs; every one of them only reads sample_orders.
SampleMetrics(rows) ==
    LET lead == Col(Frame(rows), "lt")
    IN  [total_orders |-> Len(rows),
         avg_lead_time |-> Mean(lead),
         median_lead_time |-> Median(lead),
         std_lead_time |-> Std(lead),
         lead_time_counts |-> ValueCounts(lead),
         category_sales |-> CountByCategory(Frame(rows)),
         late_orders |-> Cardinality({i \in DOMAIN lead : lead[i] > 14}),
         raised |-> "none"]
\* frame with the column "Order Month" (month) added to every row.
WithOrderMonth(frame) ==
    [i \in 1..Len(frame) |->
        [idx |-> frame[i].idx, row |-> [month |-> ToPeriodM(frame[i].row.od)] @@ frame[i].row]]
\* The objects of a run at line 160: sample_orders is bound to the record set
\* built at line 25, and sample_orders['Order Month'] = ... writes that object.
SampleLoaded(rows) == [bind |-> "sample_orders" :> 1, heap |-> <<Frame(rows)>>]
SetOrderMonth(M, name) == [M EXCEPT !.heap[M.bind[name]] = WithOrderMonth(@)]
SampleMemory(rows) == SetOrderMonth(SampleLoaded(rows), "sample_orders")
\* Line 161: groupby('Order Month')['Lead Time (Days)'].mean().
MonthlyLeadTime(frame) ==
    GroupByMean(frame, "month", SortedInts(Range(Col(frame, "month"))), "lt")
\* Lines 194: the Orders sheet of the exported report, every column of
\* sample_orders as it is then.
ExportedOrders(rows) ==
    [step |-> "export", sheet |-> "Orders", columns |-> DOMAIN rows[1], len |-> Len(rows)]

\* ------------------------------------------------------------ the ingestors
\* Largest number of rows of a sheet of the workbook.
MaxRecords == 1
\* Largest number of products the API returns.
MaxProducts == 1

None == "None"
Unbound == [type |-> "unbound", len |-> 0]
SheetNames == {"Orders", "Returns"}
\* What lies at the path of the workbook: nothing, a file read_excel cannot
\* parse, or a workbook (its sheets, each with its number of rows).
Files ==
    {[kind |-> "missing", sheets |-> <<>>], [kind |-> "corrupt", sheets |-> <<>>]}
    \cup {[kind |-> "workbook", sheets |-> sh] :
            sh \in UNION {[names -> 0..MaxRecords] : names \in SUBSET SheetNames \ {{}}}}
\* What the product API answers: a list of products, or a failure of the request.
ApiAnswers ==
    {[kind |-> "ok", len |-> n] : n \in 0..MaxProducts}
    \cup {[kind |-> e, len |-> 0] : e \in {"ConnectionError", "HTTPError"}}

\* pd.read_excel(filepath, sheet_name): a DataFrame for a named sheet, a dict of
\* all sheets for sheet_name = None; raises on a file it cannot parse and on a
\* sheet that is not there.
ReadExcel(file, sheet_name) ==
    IF file.kind = "missing" THEN [raised |-> "FileNotFoundError", value |-> Unbound]
    ELSE IF file.kind = "corrupt" THEN [raised |-> "BadZipFile", value |-> Unbound]
    ELSE IF sheet_name = None
         THEN [raised |-> "none",
               value |-> [type |-> "dict", len |-> Cardinality(DOMAIN file.sheets)]]
    ELSE IF sheet_name \in DOMAIN file.sheets
         THEN [raised |-> "none",
               value |-> [type |-> "DataFrame", len |-> file.sheets[sheet_name]]]
    ELSE [raised |-> "ValueError", value |-> Unbound]

\* load_excel_data without its os.path.exists test: a missing file reaches
\* read_excel and its error is wrapped like a parse failure.
LoadExcelDataNoExistsCheck(file, sheet_name) ==
    LET r == ReadExcel(file, IF sheet_name \in {None, ""} THEN None ELSE sheet_name)
    IN  IF r.raised = "none"
        THEN [raised |-> "none", value |-> r.value, read |-> TRUE]
        ELSE [raised |-> "Exception", value |-> Unbound, read |-> TRUE]
\* load_excel_data(filepath, sheet_name): read tells whether read_excel was called.
load_excel_data(file, sheet_name) ==
    IF file.kind = "missing"
    THEN [raised |-> "FileNotFoundError", value |-> Unbound, read |-> FALSE]
    ELSE LET r == ReadExcel(file, IF sheet_name \in {None, ""} THEN None ELSE sheet_name)
         IN  IF r.raised = "none"
             THEN [raised |-> "none", value |-> r.value, read |-> TRUE]
             ELSE [raised |-> "Exception", value |-> Unbound, read |-> TRUE]

\* fetch_fake_store_products(): the product list, or Exception for any
\* RequestException of the request or of raise_for_status.
fetch_fake_store_products(answer) ==
    IF answer.kind = "ok"
    THEN [raised |-> "none", value |-> [type |-> "list", len |-> answer.len]]
    ELSE [raised |-> "Exception", value |-> Unbound]

\* simulate_inventory(products): one inventory record per product, or a failure
\* of its own.
simulate_inventory(products, works) ==
    IF works
    THEN [raised |-> "none", value |-> [type |-> "DataFrame", len |-> products.len]]
    ELSE [raised |-> "Exception", value |-> Unbound]

\* ---------------------------------------------------------------- the state
VARIABLES
    program,    \* the entry point this process runs: "app", "output", "main",
                \* or "load_excel_data" for a direct call of the ingestor
    df,         \* the rows loaded from data/processed_data.csv
    ran,        \* whether the script has run at least once
    sel,        \* the widgets' values of the last run
    out,        \* what the last run computed
    env,        \* what the ingestors find: the file, the API's answer, the simulation
    pc,         \* main(): the step to execute next
    locals,     \* main(): excel_data, products, inventory_df
    log         \* main(): the steps executed so far, each with its outcome
vars == <<program, df, ran, sel, out, env, pc, locals, log>>
dashboard_vars == <<df, ran, sel, out>>
pipeline_vars == <<env, pc, locals, log>>

NoSelection == [start |-> NaT, end |-> NaT, category |-> "All", dates |-> 0]
NoOutput == [view |-> <<>>, raised |-> "not run"]

\* date_input needs a date to start from: the scripts get past their widgets
\* only when some Order Date is present.
HasOrderDate(rows) == SeriesMin(Col(Frame(rows), "od")) # NaT

Days == 0..MaxDay
\* A rerun follows the change of one widget; the other widgets keep their values.
\* The range picker of app.py returns a tuple of 0 to 2 dates: both dates of a
\* range, the first date alone once the user has picked it and not yet the
\* second, or nothing when the range is cleared.
AppChanges(rows, s) ==
    {[s EXCEPT !.start = r[1], !.end = r[2], !.dates = 2] :
        r \in {p \in Days \X Days : p[1] <= p[2]}}
    \cup {[s EXCEPT !.start = a, !.end = NaT, !.dates = 1] : a \in Days}
    \cup {[s EXCEPT !.start = NaT, !.end = NaT, !.dates = 0]}
    \cup {[s EXCEPT !.category = c] : c \in CategoryOptions(rows)}
OutputChanges(rows, s) ==
    {[s EXCEPT !.start = a] : a \in Days}
    \cup {[s EXCEPT !.end = b] : b \in Days}
    \cup {[s EXCEPT !.category = c] : c \in CategoryOptions(rows)}

NoEnv == [file |-> [kind |-> "missing", sheets |-> <<>>], sheet_name |-> None,
          api |-> [kind |-> "ok", len |-> 0], simulation |-> TRUE]
NoLocals == [excel_data |-> Unbound, products |-> Unbound, inventory_df |-> Unbound]
NoPipeline == env = NoEnv /\ pc = "none" /\ locals = NoLocals /\ log = <<>>
NoDashboard == df = <<>> /\ ran = FALSE /\ sel = NoSelection /\ out = NoOutput

InitApp ==
    /\ program = "app"
    /\ df \in Datasets(AppRows)
    /\ ran = FALSE /\ sel = NoSelection /\ out = NoOutput
    /\ NoPipeline
InitOutput ==
    /\ program = "output"
    /\ df \in Datasets(OutputRows)
    /\ ran = FALSE /\ sel = NoSelection /\ out = NoOutput
    /\ NoPipeline
\* main() reads data/Global_Superstore.xlsx, sheet "Orders".
InitMain ==
    /\ program = "main"
    /\ env \in [file : Files, sheet_name : {"Orders"}, api : ApiAnswers, simulation : BOOLEAN]
    /\ pc = "excel" /\ locals = NoLocals /\ log = <<>>
    /\ NoDashboard
\* A call load_excel_data(filepath, sheet_name) with any sheet_name.
InitLoadExcelData ==
    /\ program = "load_excel_data"
    /\ env \in [file : Files, sheet_name : {None, ""} \cup SheetNames,
                 api : {NoEnv.api}, simulation : {TRUE}]
    /\ pc = "call" /\ locals = NoLocals /\ log = <<>>
    /\ NoDashboard
\* supply chain pro/output.py starts main(): nothing is built yet.
InitSample ==
    /\ program = "sample"
    /\ NoDashboard
    /\ env = NoEnv /\ pc = "construct" /\ locals = NoLocals /\ log = <<>>
Init == InitApp \/ InitOutput \/ InitMain \/ InitLoadExcelData \/ InitSample

\* The first execution of dashboard/app.py: the widgets hold their defaults.
AppFirstRun ==
    /\ program = "app" /\ ~ran /\ HasOrderDate(df)
    /\ sel' = DefaultSelection(df)
    /\ out' = AppScript(df, DefaultSelection(df))
    /\ df' = Rows(Deref(AppMemory(df, DefaultSelection(df)), "df"))
    /\ ran' = TRUE
    /\ UNCHANGED <<program, pipeline_vars>>
\* The user changes a widget of dashboard/app.py (the date range, whose picker
\* returns its two dates in order, or the category) and the script runs again.
AppRerun ==
    /\ program = "app" /\ ran
    /\ \E s \in AppChanges(df, sel) :
          /\ sel' = s
          /\ out' = AppScript(df, s)
          /\ df' = Rows(Deref(AppMemory(df, s), "df"))
    /\ UNCHANGED <<program, ran, pipeline_vars>>
\* The first execution of output.py.
OutputFirstRun ==
    /\ program = "output" /\ ~ran /\ HasOrderDate(df)
    /\ sel' = DefaultSelection(df)
    /\ out' \in OutputScript(df, DefaultSelection(df))
    /\ df' = Rows(Deref(OutputMemory(df, DefaultSelection(df)), "df"))
    /\ ran' = TRUE
    /\ UNCHANGED <<program, pipeline_vars>>
\* The user changes a widget of output.py (the start date, the end date or the
\* category) and the script runs again.
OutputRerun ==
    /\ program = "output" /\ ran
    /\ \E s \in OutputChanges(df, sel) :
          /\ sel' = s
          /\ out' \in OutputScript(df, s)
          /\ df' = Rows(Deref(OutputMemory(df, s), "df"))
    /\ UNCHANGED <<program, ran, pipeline_vars>>

\* One try block of main(): the step's name, whether its ingestor was called,
\* whether pd.read_excel was called, what the step raised ("none" when it
\* returned) and the length of the value it returned.
Entry(step, called, read, r) ==
    [step |-> step, called |-> called, read |-> read, raised |-> r.raised, len |-> r.value.len]

\* main(), lines 31-36: the Excel load.
MainExcel ==
    /\ program = "main" /\ pc = "excel"
    /\ LET r == load_excel_data(env.file, env.sheet_name)
       IN  /\ locals' = IF r.raised = "none" THEN [locals EXCEPT !.excel_data = r.value] ELSE locals
           /\ log' = Append(log, Entry("excel", TRUE, r.read, r))
    /\ pc' = "api"
    /\ UNCHANGED <<program, env, dashboard_vars>>
\* The product fetch without its try/except: a failure of the fetch leaves
\* main() at once.
MainApiUncaught ==
    /\ program = "main" /\ pc = "api"
    /\ LET r == fetch_fake_store_products(env.api)
       IN  /\ locals' = IF r.raised = "none" THEN [locals EXCEPT !.products = r.value] ELSE locals
           /\ log' = Append(log, Entry("api", TRUE, FALSE, r))
           /\ pc' = IF r.raised = "none" THEN "sim" ELSE "aborted"
    /\ UNCHANGED <<program, env, dashboard_vars>>
\* main(), lines 38-43: the product fetch.
MainApi ==
    /\ program = "main" /\ pc = "api"
    /\ LET r == fetch_fake_store_products(env.api)
       IN  /\ locals' = IF r.raised = "none" THEN [locals EXCEPT !.products = r.value] ELSE locals
           /\ log' = Append(log, Entry("api", TRUE, FALSE, r))
    /\ pc' = "sim"
    /\ UNCHANGED <<program, env, dashboard_vars>>
\* main(), lines 45-50: the inventory simulation.  Reading products when the
\* fetch assigned nothing raises UnboundLocalError before simulate_inventory is
\* called; except Exception catches it like any other.
MainSim ==
    /\ program = "main" /\ pc = "sim"
    /\ IF locals.products = Unbound
       THEN /\ log' = Append(log, Entry("sim", FALSE, FALSE, [raised |-> "UnboundLocalError", value |-> Unbound]))
            /\ UNCHANGED locals
       ELSE LET r == simulate_inventory(locals.products, env.simulation)
            IN  /\ locals' = IF r.raised = "none" THEN [locals EXCEPT !.inventory_df = r.value] ELSE locals
                /\ log' = Append(log, Entry("sim", TRUE, FALSE, r))
    /\ pc' = "completed"
    /\ UNCHANGED <<program, env, dashboard_vars>>
\* main(), line 54: the closing message.
MainCompleted ==
    /\ program = "main" /\ pc = "completed"
    /\ pc' = "done"
    /\ UNCHANGED <<program, env, locals, log, dashboard_vars>>
\* The direct call of load_excel_data returns or raises.
CallLoadExcelData ==
    /\ program = "load_excel_data" /\ pc = "call"
    /\ LET r == load_excel_data(env.file, env.sheet_name)
       IN  /\ locals' = [locals EXCEPT !.excel_data = r.value]
           /\ log' = Append(log, Entry("load_excel_data", TRUE, r.read, r))
    /\ pc' = "done"
    /\ UNCHANGED <<program, env, dashboard_vars>>

\* supply chain pro/output.py, lines 25-49: the record sets are built.
SampleConstruct ==
    /\ program = "sample" /\ pc = "construct"
    /\ df' \in SampleOrders
    /\ pc' = "metrics"
    /\ UNCHANGED <<program, ran, sel, out, env, locals, log>>
\* Lines 51-156: KPIs, charts, alerts and the first two tabs.
SampleKpis ==
    /\ program = "sample" /\ pc = "metrics"
    /\ out' = SampleMetrics(df)
    /\ pc' = "fulfillment"
    /\ UNCHANGED <<program, df, ran, sel, env, locals, log>>
\* Lines 158-168, the Fulfillment tab: the monthly rollup, computed on a column
\* the script first assigns on sample_orders.
SampleFulfillment ==
    /\ program = "sample" /\ pc = "fulfillment"
    /\ df' = Rows(Deref(SampleMemory(df), "sample_orders"))
    /\ out' = [monthly_lead_time |-> MonthlyLeadTime(Deref(SampleMemory(df), "sample_orders"))] @@ out
    /\ pc' = "sidebar"
    /\ UNCHANGED <<program, ran, sel, env, locals, log>>
\* Lines 170-197, the sidebar: two filter widgets whose values no statement
\* reads, and two buttons, either of which can be the one whose press started
\* this run (never on the first run).  Refresh Data restarts the script at
\* once; Export Report writes the record sets to a workbook.
SampleSidebar ==
    /\ program = "sample" /\ pc = "sidebar"
    /\ \E pressed \in (IF ran THEN {"none", "refresh", "export"} ELSE {"none"}) :
          IF pressed = "refresh"
          THEN /\ pc' = "construct" /\ df' = <<>> /\ out' = NoOutput
               /\ UNCHANGED log
          ELSE /\ pc' = "done"
               /\ log' = IF pressed = "export" THEN <<ExportedOrders(df)>> ELSE log
               /\ UNCHANGED <<df, out>>
    /\ UNCHANGED <<program, ran, sel, env, locals>>
\* The user changes a widget or presses a button: main() runs again and builds
\* the record sets anew.
SampleRerun ==
    /\ program = "sample" /\ pc = "done"
    /\ pc' = "construct" /\ ran' = TRUE /\ df' = <<>> /\ out' = NoOutput
    /\ UNCHANGED <<program, sel, env, locals, log>>

Next ==
    \/ SampleConstruct \/ SampleKpis \/ SampleFulfillment \/ SampleSidebar \/ SampleRerun
    \/ AppFirstRun \/ AppRerun \/ OutputFirstRun \/ OutputRerun
    \/ MainExcel \/ MainApi \/ MainSim \/ MainCompleted
    \/ CallLoadExcelData
Spec == Init /\ [][Next]_vars

\* ------------------------------------------------------------------ claims
\* A dashboard script has run and has filtered (app.py with both dates of its
\* range picked).
Dashboard == program \in {"app", "output"} /\ ran /\ out.raised # "IndexError"
View == out.view
\* The index labels of the rows of a frame, in the frame's order.
Labels(frame) == [j \in 1..Len(frame) |-> frame[j].idx]
\* The row of df a view row was taken from has the same cells.
SameCells(v) == \A c \in DOMAIN df[v.idx + 1] : v.row[c] = df[v.idx + 1][c]

\* C1: filtering with the full range [min Order Date, max Order Date] and the
\* category "All" returns exactly the loaded records, every one of them, the
\* ones with a missing order date or category included.
C1_FullRangeIsIdentity ==
    (Dashboard /\ sel = DefaultSelection(df)) =>
        /\ Labels(View) = [j \in 1..Len(df) |-> j - 1]
        /\ \A j \in 1..Len(View) : SameCells(View[j])

\* C2: a view whose Quantity Ordered sums to 0 has fill rate exactly 0, and a
\* view whose Inventory sums to 0 has inventory turnover exactly 0 (never nan or
\* inf).
C2_SafeDivision ==
    (program = "output" /\ ran) =>
        /\ SeriesSum(Col(View, "qo")) = 0 => IsNum(out.fill_rate, 0)
        /\ SeriesSum(Col(View, "inv")) = 0 => IsNum(out.inventory_turnover, 0)

\* The distinct product identifiers with a row of the view whose stock is
\* strictly below its reorder threshold.
ProductsBelow(stock, threshold) ==
    {View[j].row.pid : j \in {i \in 1..Len(View) :
        /\ View[i].row[stock] # NaN /\ View[i].row[threshold] # NaN
        /\ View[i].row[stock] < View[i].row[threshold]}} \ {NA}
\* C3: products at risk is the number of distinct product identifiers with a
\* row of the view whose stock is below its reorder point, not the number of
\* such rows, and never more than the number of distinct identifiers.
C3_DistinctProductsAtRisk ==
    Dashboard =>
        /\ out.products_at_risk =
              IF program = "app" THEN Cardinality(ProductsBelow("sl", "rp"))
              ELSE Cardinality(ProductsBelow("inv", "rl"))
        /\ out.products_at_risk <= out.total_products

\* The positions in df of the records the filter is to return.
Wanted ==
    {i \in 1..Len(df) :
        /\ df[i].od # NaT
        /\ ToDatetime(sel.start) <= df[i].od /\ df[i].od <= ToDatetime(sel.end)
        /\ (sel.category # "All" => df[i].cat = sel.category)}
\* C4: the filter returns exactly the records with lower <= order date <= upper
\* (both inclusive) and, for a category other than "All", that category; in the
\* order of the input, none twice.
C4_FilterExact ==
    Dashboard =>
        /\ {View[j].idx + 1 : j \in 1..Len(View)} = Wanted
        /\ \A j \in 1..Len(View) : SameCells(View[j])
        /\ \A j, k \in 1..Len(View) : j < k => View[j].idx < View[k].idx
\* A category is selected; the first record is dropped and the second, whose
\* order date is the upper bound itself, is kept.
C4_Witness ==
    /\ Dashboard /\ sel.category # "All"
    /\ Len(df) = 2 /\ Labels(View) = <<1>>
    /\ View[1].row.od = ToDatetime(sel.end)
    /\ sel.start < sel.end

\* The entry of main()'s log for a step (each step is logged once).
Logged(step) == {i \in 1..Len(log) : log[i].step = step}
Succeeded(step) == \E i \in Logged(step) : log[i].raised = "none"
\* Whether the step's own ingestor, called on its own, returns.
OwnAdapterSucceeds(step) ==
    IF step = "excel" THEN load_excel_data(env.file, env.sheet_name).raised = "none"
    ELSE IF step = "api" THEN fetch_fake_store_products(env.api).raised = "none"
    ELSE env.simulation
\* C5: in main(), a source whose own adapter would succeed is ingested
\* successfully whatever happens to the other sources.
C5_PartialFailureTolerant ==
    (program = "main" /\ pc = "done") =>
        \A step \in {"excel", "api", "sim"} : OwnAdapterSucceeds(step) => Succeeded(step)

\* C6: the KPIs of an empty view are total orders = 0, products at risk = 0,
\* fill rate = 0 and turnover = 0, none of them not-a-number.
C6_EmptyViewAllZero ==
    (Dashboard /\ View = <<>>) =>
        /\ out.total_orders = 0
        /\ out.products_at_risk = 0
        /\ IsNum(out.fill_rate, 0)
        /\ IsNum(out.inventory_turnover, 0)

\* C7: for a view of exactly one order, shipped three days after it was
\* ordered, the lead-time statistics are mean = 3, median = 3 and standard
\* deviation = 0.
C7_SingleOrderLeadTime ==
    (program = "app" /\ ran /\ Len(View) = 1
        /\ View[1].row.od # NaT /\ View[1].row.sd = View[1].row.od + 3 * HoursPerDay) =>
        /\ IsNum(out.avg_lead_time, 3)
        /\ IsNum(out.median_lead_time, 3)
        /\ out.std_lead_time.k = "sqrt" /\ out.std_lead_time.n = 0

\* The keys of the non-missing cells of a column of the view.
KeysOf(column, missing) == Range(Col(View, column)) \ {missing}
\* One pair for each key of keys and no other pair.
OnePairPerKey(rollup, keys) ==
    /\ {rollup[j].key : j \in 1..Len(rollup)} = keys
    /\ Len(rollup) = Cardinality(keys)
DatesAscending(rollup) ==
    \A j \in 1..Len(rollup) - 1 : rollup[j].key < rollup[j + 1].key
CategoriesAscending(rollup) ==
    \A j \in 1..Len(rollup) - 1 : CatRank(rollup[j].key) < CatRank(rollup[j + 1].key)
ValuesDescending(rollup) ==
    \A j \in 1..Len(rollup) - 1 : NumLe(rollup[j + 1].value, rollup[j].value)
BucketsAreTheKeys ==
    /\ OnePairPerKey(out.time_rollup, KeysOf("od", NaT))
    /\ OnePairPerKey(out.category_rollup, KeysOf("cat", NA))
    /\ program = "app" => OnePairPerKey(out.lead_rollup, KeysOf("od", NaT))
\* C8, as claimed: every rollup holds one pair per key with a contributing
\* record, none for any other key, and is sorted by key ascending.
C8_AllRollupsByKey ==
    Dashboard =>
        /\ BucketsAreTheKeys
        /\ DatesAscending(out.time_rollup)
        /\ CategoriesAscending(out.category_rollup)
        /\ program = "app" => DatesAscending(out.lead_rollup)
\* C8, amended: every rollup holds one pair per key with a contributing record
\* and none for any other key; the time rollups and the category rollup of
\* dashboard/app.py are sorted by key ascending, the category rollup cat_perf of
\* output.py is sorted by its value, largest first.
C8_RollupsSorted ==
    Dashboard =>
        /\ BucketsAreTheKeys
        /\ DatesAscending(out.time_rollup)
        /\ program = "app" =>
              CategoriesAscending(out.category_rollup) /\ DatesAscending(out.lead_rollup)
        /\ program = "output" => ValuesDescending(out.category_rollup)
\* output.py has run on a view of two records of one day: cat_perf holds two
\* categories, the later key first, and the time rollup holds the one day.
C8_Witness ==
    /\ program = "output" /\ ran
    /\ Len(out.category_rollup) = 2 /\ out.category_rollup[1].key = "Electronics"
    /\ Len(out.time_rollup) = 1 /\ Len(View) = 2

RECURSIVE SumOfValues(_)
SumOfValues(rollup) ==
    IF rollup = <<>> THEN 0 ELSE Head(rollup).value.n + SumOfValues(Tail(rollup))
\* C9: the per-category totals of Quantity Delivered add up to the total of
\* Quantity Delivered over the same view; no record's quantity is lost, a
\* record with a missing category included.
C9_CategoryTotalsAddUp ==
    (program = "output" /\ ran) => SumOfValues(out.category_rollup) = out.filled

\* The log entries of calls of load_excel_data.
Loads == {i \in 1..Len(log) : log[i].step \in {"excel", "load_excel_data"}}
\* C10: load_excel_data raises FileNotFoundError for a path that does not
\* exist, before any parsing; raises a different exception (Exception) when
\* the file exists and cannot be read as asked; and returns data only for a
\* file that exists and parses.
C10_LoadExcelFailures ==
    \A i \in Loads :
        /\ env.file.kind = "missing" => log[i].raised = "FileNotFoundError" /\ ~log[i].read
        /\ env.file.kind = "corrupt" => log[i].raised = "Exception" /\ log[i].read
        /\ log[i].raised = "none" => env.file.kind = "workbook" /\ locals.excel_data # Unbound
        /\ log[i].raised # "none" => locals.excel_data = Unbound
\* A call on a missing path has raised FileNotFoundError without reading.
C10_Witness ==
    /\ program = "load_excel_data" /\ pc = "done"
    /\ env.file.kind = "missing" /\ env.sheet_name = None
    /\ log[1].raised = "FileNotFoundError" /\ ~log[1].read

\* The filter of the running script applied to a frame: the frame of df, or a
\* view the filter has already returned.
Refilter(frame, s) ==
    IF program = "app" THEN BoolIndex(frame, AppMask(frame, s))
    ELSE OutputCategoryFilter(OutputDateFilter(frame, s), s)
\* The selections with the category of s and a date range that contains the
\* range of s.
Wider(s) ==
    {[s EXCEPT !.start = a, !.end = b] :
        a \in {d \in Days : d <= s.start}, b \in {d \in Days : d >= s.end}}
\* Every row of frame a is a row of frame b: same label, same cells of df.
SubFrame(a, b) ==
    \A j \in 1..Len(a) : \E k \in 1..Len(b) :
        /\ b[k].idx = a[j].idx
        /\ \A c \in DOMAIN b[k].row : a[j].row[c] = b[k].row[c]
\* C11: filtering is idempotent and composes: filtering the view again by the
\* range and category that made it returns the view; filtering it by any wider
\* range and the same category returns the view too; and the view is a subset
\* of what that wider range returns on the loaded records.
C11_FilterIdempotent ==
    Dashboard =>
        /\ Refilter(View, sel) = View
        /\ \A w \in Wider(sel) :
              /\ Refilter(View, w) = View
              /\ SubFrame(View, Refilter(Frame(df), w))
\* A view that has rows and leaves out a record a strictly wider range returns.
C11_Witness ==
    /\ Dashboard /\ View # <<>>
    /\ \E w \in Wider(sel) :
          /\ w # sel
          /\ Len(Refilter(Frame(df), w)) > Len(View)
          /\ Refilter(View, w) = View

\* The two dashboards of Supply project leave df as loaded through every run:
\* their only column assignments are on objects of their own.
CitedScriptsKeepSource == [][(program \in {"app", "output"}) => (df' = df)]_vars
\* C12: once the record set is built, no filter request and no KPI or
\* aggregation pass of a dashboard script adds, removes or changes a record or
\* a field of it; derived columns exist on derived views only.  (Building the
\* set, at the start of a run of the sample dashboard, is not such a pass.)
C12_SourceUnchanged ==
    [][(/\ program \in {"app", "output", "sample"}
        /\ pc # "construct" /\ pc' # "construct") => (df' = df)]_vars

\* The steps main() has entered, in the order it entered them.
StepsOf(l) == [i \in 1..Len(l) |-> l[i].step]
MainSteps == <<"excel", "api", "sim">>
\* The number of steps behind main() at its position pc.
StepsBehind ==
    CASE pc = "excel" -> 0 [] pc = "api" -> 1 [] pc = "sim" -> 2 [] OTHER -> 3
\* C13: every run of main() enters the three ingestion steps once each, in the
\* order Excel load, product fetch, inventory simulation, whichever of them
\* raise an Exception (none is entered twice, none is passed over after a
\* failure), and goes on until it has printed the closing message: at every
\* position before the end main() has a next step to take.
C13_MainRunsEveryStepOnce ==
    program = "main" =>
        /\ pc \in {"excel", "api", "sim", "completed", "done"}
        /\ StepsOf(log) = SubSeq(MainSteps, 1, StepsBehind)
        /\ pc # "done" => ENABLED Next
\* A run of main() in which all three steps raised has reached its end.
C13_Witness ==
    /\ program = "main" /\ pc = "done"
    /\ StepsOf(log) = MainSteps
    /\ \A i \in 1..Len(log) : log[i].raised # "none"

====
